---- MODULE Spec2Model ----
(***************************************************************************)
(* Model of scripts/sync_routes.py: the reconciliation of a module's       *)
(* declared URL paths against an API Gateway resource tree.                *)
(*                                                                         *)
(* Strings the code inspects character by character (paths) are sequences  *)
(* of one-character strings; strings the code only concatenates and        *)
(* compares (ARNs, URIs, statement ids) are sequences of string tokens.    *)
(* Python's None is the string "None".                                     *)
(***************************************************************************)
EXTENDS Integers, Sequences, FiniteSets, TLC

VARIABLES
    apis,             \* get_rest_apis: the account's REST APIs, in listing order
    gw_resources,     \* the gateway's resource tree: id -> [parentId, pathPart, path]
    gw_methods,       \* the gateway's methods: <<resource id, verb>> -> [authorizationType]
    gw_integrations,  \* the gateway's integrations: <<resource id, verb>> -> [type, integrationHttpMethod, uri]
    deployments,      \* create_deployment: the deployments made, in order
    functions,        \* the handler registry: function name -> ARN
    policy,           \* each function's resource policy: function name -> sequence of statements
    config,           \* the module's config.json
    env,              \* the region sources of the process environment
    initial,          \* the gateway as it was before the first run
    run,              \* each run of main(): its position and its local variables
    invocation        \* a module's deployed handler: the event it is invoked with, its responses

vars == <<apis, gw_resources, gw_methods, gw_integrations, deployments, functions,
          policy, config, env, initial, run, invocation>>

remote == <<apis, gw_resources, gw_methods, gw_integrations, deployments, functions, policy>>

\* ------------------------------------------------------------------ bounds

\* How many runs of main() a behaviour holds.
MaxRuns == 2

\* The longest desired-path list a config.json holds.
MaxPaths == 2

Runs == 1..MaxRuns

NONE == "None"

\* ------------------------------------------------------------------ strings

\* seg for seg in path.split("/") if seg
RECURSIVE SplitFrom(_, _, _)
SplitFrom(s, i, cur) ==
    IF i > Len(s)
    THEN IF cur = <<>> THEN <<>> ELSE <<cur>>
    ELSE IF s[i] = "/"
         THEN (IF cur = <<>> THEN <<>> ELSE <<cur>>) \o SplitFrom(s, i + 1, <<>>)
         ELSE SplitFrom(s, i + 1, Append(cur, s[i]))

Segments(path) == SplitFrom(path, 1, <<>>)

\* built_path = f"{built_path}/{seg}" if built_path else f"/{seg}"
BuiltPath(built_path, seg) ==
    IF built_path # <<>> THEN built_path \o <<"/">> \o seg ELSE <<"/">> \o seg

\* The decimal digits of a natural number, as str() prints it.
DigitChar(d) == <<"0", "1", "2", "3", "4", "5", "6", "7", "8", "9">>[d + 1]

RECURSIVE StrOfNat(_)
StrOfNat(n) == IF n < 10 THEN <<DigitChar(n)>> ELSE StrOfNat(n \div 10) \o <<DigitChar(n % 10)>>

\* str(p) for an element p of the JSON array: a string is itself, a number its digits.
Str(p) == IF p.t = "str" THEN p.s ELSE StrOfNat(p.n)

\* a or b, for Python's truthiness of an optional string
Or(a, b) == IF a # NONE /\ a # "" THEN a ELSE b

\* s.replace(old, new) on a token sequence
Replace(s, old, new) == [k \in 1..Len(s) |-> IF s[k] = old THEN new ELSE s[k]]

\* s.split(sep)[-1] on a token sequence: the tokens after the last sep
RECURSIVE AfterLast(_, _, _)
AfterLast(s, sep, k) ==
    IF k = 0 THEN s
    ELSE IF s[k] = sep THEN SubSeq(s, k + 1, Len(s)) ELSE AfterLast(s, sep, k - 1)

SplitLast(s, sep) == AfterLast(s, sep, Len(s))

\* ------------------------------------------------------------------ program constants

\* for method in ("GET", "POST", "PUT", "DELETE", "PATCH", "OPTIONS")
Methods == <<"GET", "POST", "PUT", "DELETE", "PATCH", "OPTIONS">>

\* --api-name, --lambda-name-prefix and --stage defaults
ApiName == "MainApiGateway"
LambdaNamePrefix == "project-"
Stage == "prod"

\* ------------------------------------------------------------------ the remote services

RootId == 0

\* The path API Gateway gives a resource created under a parent.
ChildPath(parentPath, pathPart) ==
    IF parentPath = <<"/">> THEN <<"/">> \o pathPart ELSE parentPath \o <<"/">> \o pathPart

\* The id API Gateway gives a new resource.
NewId(res) == 1 + CHOOSE k \in DOMAIN res : \A j \in DOMAIN res : j <= k

\* create_resource's answer for (parentId, pathPart) on the tree res.
CreateResourceAnswer(res, parentId, pathPart) ==
    IF parentId \notin DOMAIN res THEN "NotFoundException"
    ELSE IF \E k \in DOMAIN res : res[k].parentId = parentId /\ res[k].pathPart = pathPart
         THEN "ConflictException"
         ELSE "ok"

\* The new resource put in the place of the newest one, whose id it takes.
CreateResourceInPlace(res, parentId, pathPart) ==
    (NewId(res) - 1 :> [parentId |-> parentId, pathPart |-> pathPart,
                        path |-> ChildPath(res[parentId].path, pathPart)]) @@ res

\* The tree after a successful create_resource(parentId, pathPart).
CreateResource(res, parentId, pathPart) ==
    (NewId(res) :> [parentId |-> parentId, pathPart |-> pathPart,
                    path |-> ChildPath(res[parentId].path, pathPart)]) @@ res

\* The ARN the handler registry gives a function.
FunctionArn(name) == <<"arn:aws:lambda:", "us-east-1", ":", "111", ":function:">> \o name

\* add_permission's answer: a statement id is unique within a function's policy.
AddPermissionAnswer(pol, sid) ==
    IF \E k \in 1..Len(pol) : pol[k].Sid = sid THEN "ResourceConflictException" ELSE "ok"

\* ------------------------------------------------------------------ pure helpers of the script

\* Every listed path mapped to the id of the last listed resource.
ListedResourcesLastId(res) ==
    [p \in {res[k].path : k \in DOMAIN res} |->
        CHOOSE k \in DOMAIN res : \A j \in DOMAIN res : j <= k]

\* lines 19-23: the path -> id mapping of the listed resources
ListedResources(res) ==
    [p \in {res[k].path : k \in DOMAIN res} |-> CHOOSE k \in DOMAIN res : res[k].path = p]

\* lines 9-15: the id of the first API whose name is exactly `name`, or None
RECURSIVE FindFrom(_, _, _)
FindFrom(items, name, k) ==
    IF k > Len(items) THEN NONE
    ELSE IF items[k].name = name THEN items[k].id ELSE FindFrom(items, name, k + 1)

find_rest_api_id_by_name(items, name) == FindFrom(items, name, 1)

\* lines 128-133: the orchestrator's region
MainRegion(e) == Or(Or(Or(e.session, e.AWS_REGION), e.AWS_DEFAULT_REGION), "us-east-1")

\* lines 57-59: the region of the integration URI
MethodRegion(e) ==
    LET region == Or(Or(e.session, e.AWS_REGION), e.AWS_DEFAULT_REGION)
    IN  IF region = NONE \/ region = "" THEN Or(e.sts_meta, "us-east-1") ELSE region

\* lines 55 and 60: the invocation URI
InvocationUri(lambda_arn, region) ==
    Replace(<<"arn:aws:apigateway:", "${AWS_REGION}", ":lambda:path/2015-03-31/functions/">>
              \o lambda_arn \o <<"/invocations">>,
            "${AWS_REGION}", region)

\* lines 64-71 and 73-80: the integration put_integration writes
ProxyIntegration(uri) == [type |-> "AWS_PROXY", integrationHttpMethod |-> "POST", uri |-> uri]

\* lines 84-85: the statement id
StatementId(lambda_arn, rest_api_id) ==
    <<"apigw-", rest_api_id, "-">> \o SplitLast(lambda_arn, ":function:")

\* line 86
SourceArn(region, account_id, rest_api_id) ==
    <<"arn:aws:execute-api:", region, ":", account_id, ":", rest_api_id, "/*/*/*">>

\* No isinstance check: whatever JSON value was read is iterated.
load_paths_unchecked(c) ==
    IF c.kind = "missing" THEN [error |-> "FileNotFoundError", paths |-> <<>>]
    ELSE IF c.kind = "malformed" THEN [error |-> "JSONDecodeError", paths |-> <<>>]
    ELSE [error |-> NONE, paths |-> [k \in 1..Len(c.items) |-> Str(c.items[k])]]

\* lines 103-108: load_paths on the config file: [error, paths]
load_paths(c) ==
    IF c.kind = "missing" THEN [error |-> "FileNotFoundError", paths |-> <<>>]
    ELSE IF c.kind = "malformed" THEN [error |-> "JSONDecodeError", paths |-> <<>>]
    ELSE IF c.kind # "array" THEN [error |-> "ValueError", paths |-> <<>>]
    ELSE [error |-> NONE, paths |-> [k \in 1..Len(c.items) |-> Str(c.items[k])]]

\* ------------------------------------------------------------------ a run of main()

\* A run that has not started: every local unset. `before` and `overlapped` are no
\* locals of main(): they keep the gateway as the run found it and the runs that were
\* in progress while this one was.
IdleRun ==
    [pc |-> "idle", module |-> NONE, lambda_name |-> <<>>, account_id |-> NONE,
     region |-> NONE, rest_api_id |-> NONE, lambda_arn |-> <<>>, paths |-> <<>>,
     i |-> 0, path |-> <<>>, resources |-> <<>>, segments |-> <<>>, parent_id |-> RootId,
     built_path |-> <<>>, resource_id |-> RootId, m |-> 0, error |-> NONE, log |-> <<>>,
     before |-> [resources |-> <<>>, methods |-> <<>>, integrations |-> <<>>,
                 policy |-> <<>>, deployments |-> <<>>],
     overlapped |-> {}]

\* One remote call as the run issued it: the operation, the resource id and path and
\* verb it names, and the service's answer.
Call(op, rid, path, verb, res) == [op |-> op, rid |-> rid, path |-> path, verb |-> verb, res |-> res]

Ended(rec) == rec.pc \in {"done", "failed"}

\* An exception leaves main(): the run ends with the error.
Raise(rec, err) == [rec EXCEPT !.pc = "failed", !.error = err]

\* The permission granted as soon as the handler is known, before the paths are loaded.
AfterGrantFirst(step) ==
    CASE step = "get_caller_identity" -> "get_rest_apis"
      [] step = "get_rest_apis" -> "get_function"
      [] step = "get_function" -> "add_permission"
      [] step = "add_permission" -> "load_paths"
      [] step = "load_paths" -> "paths"
      [] step = "paths" -> "create_deployment"
      [] step = "create_deployment" -> "done"

\* lines 127-162: the order of main()'s steps; "paths" is the loop of lines 152-157
After(step) ==
    CASE step = "get_caller_identity" -> "get_rest_apis"
      [] step = "get_rest_apis" -> "get_function"
      [] step = "get_function" -> "load_paths"
      [] step = "load_paths" -> "paths"
      [] step = "paths" -> "add_permission"
      [] step = "add_permission" -> "create_deployment"
      [] step = "create_deployment" -> "done"

\* line 152, the head of `for path in paths`: the next path, or the end of the loop
NextPath(rec) ==
    IF rec.i = Len(rec.paths)
    THEN [rec EXCEPT !.pc = After("paths")]
    ELSE [rec EXCEPT !.pc = "get_resources", !.i = rec.i + 1, !.path = rec.paths[rec.i + 1]]

\* line 155, the head of `for method in (...)`, with resource_id bound by line 154
FirstMethod(rec, id) == [rec EXCEPT !.pc = "ensure_method", !.resource_id = id, !.m = 1]

\* The id of the last resource walked or created is returned, whatever its path.
ReturnResourceOfWalk(rec) == FirstMethod(rec, rec.parent_id)

\* line 40: return resources[path]
ReturnResource(rec) ==
    IF rec.path \in DOMAIN rec.resources
    THEN FirstMethod(rec, rec.resources[rec.path])
    ELSE Raise(rec, "KeyError")

\* No lookup of the partial path: every segment is created.
WalkExistingNoLookup(rec) ==
    IF rec.segments = <<>> THEN ReturnResource(rec) ELSE [rec EXCEPT !.pc = "walk"]

\* lines 31-35: the loop of ensure_path up to its next create_resource call (pc "walk")
\* or, the segments exhausted, to its return
RECURSIVE WalkExisting(_)
WalkExisting(rec) ==
    IF rec.segments = <<>> THEN ReturnResource(rec)
    ELSE LET built == BuiltPath(rec.built_path, Head(rec.segments))
         IN  IF built \in DOMAIN rec.resources
             THEN WalkExisting([rec EXCEPT !.built_path = built,
                                           !.parent_id = rec.resources[built],
                                           !.segments = Tail(rec.segments)])
             ELSE [rec EXCEPT !.pc = "walk"]

\* lines 19-29: ensure_path from its listing to its first create_resource call
AfterListing(rec, listed) ==
    IF rec.path \in DOMAIN listed
    THEN FirstMethod([rec EXCEPT !.resources = listed], listed[rec.path])
    ELSE WalkExisting([rec EXCEPT !.resources = listed,
                                  !.segments = Segments(rec.path),
                                  !.parent_id = listed[<<"/">>],
                                  !.built_path = <<>>])

\* The created resource recorded, but parent_id left at the old parent.
AfterCreateStaleParent(rec, id) ==
    LET built == BuiltPath(rec.built_path, Head(rec.segments))
    IN  WalkExisting([rec EXCEPT !.built_path = built,
                                 !.resources = (built :> id) @@ rec.resources,
                                 !.segments = Tail(rec.segments)])

\* lines 36-38: a create_resource call that succeeded with the id `id`
AfterCreate(rec, id) ==
    LET built == BuiltPath(rec.built_path, Head(rec.segments))
    IN  WalkExisting([rec EXCEPT !.built_path = built,
                                 !.parent_id = id,
                                 !.resources = (built :> id) @@ rec.resources,
                                 !.segments = Tail(rec.segments)])

\* ------------------------------------------------------------------ the steps of main()

Set(r, rec) == run' = [run EXCEPT ![r] = rec]

Logged(rec, calls) == [rec EXCEPT !.log = rec.log \o calls]

\* What is left of a process that has ended: how it ended, and what it was run with.
Exited(rec) ==
    [IdleRun EXCEPT !.pc = rec.pc, !.error = rec.error, !.module = rec.module,
                    !.paths = rec.paths]

\* lines 112-126: the arguments parsed, the names derived and the clients made.
\* Runs are serial: a run starts when every earlier run has ended, and the locals of
\* the ended processes are gone. `before` keeps the gateway as the run found it.
StartRun(r, module) ==
    /\ run[r].pc = "idle"
    /\ \A q \in Runs : q < r => Ended(run[q])
    /\ run' = [q \in Runs |->
                 IF q = r
                 THEN [run[r] EXCEPT !.pc = "get_caller_identity",
                                     !.module = module,
                                     !.lambda_name = <<LambdaNamePrefix, module>>,
                                     !.before = [resources |-> gw_resources,
                                                 methods |-> gw_methods,
                                                 integrations |-> gw_integrations,
                                                 policy |-> policy,
                                                 deployments |-> deployments]]
                 ELSE IF q < r THEN Exited(run[q]) ELSE run[q]]
    /\ UNCHANGED <<remote, config, env, initial, invocation>>

\* lines 127-133: the account id and the orchestrator's region
GetCallerIdentity(r, fail) ==
    /\ run[r].pc = "get_caller_identity"
    /\ Set(r, IF fail
              THEN Raise(Logged(run[r], <<Call("get_caller_identity", RootId, <<>>, "", "error")>>),
                         "ClientError")
              ELSE [Logged(run[r], <<Call("get_caller_identity", RootId, <<>>, "", "ok")>>)
                      EXCEPT !.pc = After("get_caller_identity"),
                             !.account_id = "111",
                             !.region = MainRegion(env)])
    /\ UNCHANGED <<remote, config, env, initial, invocation>>

\* lines 138-143: the gateway's id, or RuntimeError when no API has the name
FindRestApi(r, fail) ==
    /\ run[r].pc = "get_rest_apis"
    /\ LET id == find_rest_api_id_by_name(apis, ApiName)
           rec == Logged(run[r], <<Call("get_rest_apis", RootId, <<>>, "",
                                        IF fail THEN "error" ELSE "ok")>>)
       IN  Set(r, IF fail THEN Raise(rec, "ClientError")
                  ELSE IF id = NONE \/ id = "" THEN Raise(rec, "RuntimeError")
                  ELSE [rec EXCEPT !.pc = After("get_rest_apis"), !.rest_api_id = id])
    /\ UNCHANGED <<remote, config, env, initial, invocation>>

\* lines 145-148: the handler's ARN; get_function raises when there is no such function
GetFunction(r, fail) ==
    /\ run[r].pc = "get_function"
    /\ LET found == run[r].lambda_name \in functions
           rec == Logged(run[r], <<Call("get_function", RootId, <<>>, "",
                                        IF fail THEN "error"
                                        ELSE IF found THEN "ok"
                                        ELSE "ResourceNotFoundException")>>)
       IN  Set(r, IF fail THEN Raise(rec, "ClientError")
                  ELSE IF ~found THEN Raise(rec, "ResourceNotFoundException")
                  ELSE [rec EXCEPT !.pc = After("get_function"),
                                   !.lambda_arn = FunctionArn(run[r].lambda_name)])
    /\ UNCHANGED <<remote, config, env, initial, invocation>>

\* lines 150-152: the desired paths loaded, and the loop over them entered
LoadPaths(r) ==
    /\ run[r].pc = "load_paths"
    /\ LET got == load_paths(config[run[r].module])
       IN  Set(r, IF got.error # NONE THEN Raise(run[r], got.error)
                  ELSE IF After("load_paths") = "paths"
                       THEN NextPath([run[r] EXCEPT !.paths = got.paths, !.i = 0])
                       ELSE [run[r] EXCEPT !.paths = got.paths, !.pc = After("load_paths")])
    /\ UNCHANGED <<remote, config, env, initial, invocation>>

\* lines 19-35 of ensure_path: the tree listed, the exact path looked up, the existing
\* segments walked
GetResources(r, fail) ==
    /\ run[r].pc = "get_resources"
    /\ LET rec == Logged(run[r], <<Call("get_resources", RootId, <<>>, "",
                                        IF fail THEN "error" ELSE "ok")>>)
       IN  Set(r, IF fail THEN Raise(rec, "ClientError")
                  ELSE AfterListing(rec, ListedResources(gw_resources)))
    /\ UNCHANGED <<remote, config, env, initial, invocation>>

\* lines 36-40 of ensure_path: one create_resource call and the walk to the next
CreateMissing(r, fail) ==
    /\ run[r].pc = "walk"
    /\ LET seg == Head(run[r].segments)
           parent == run[r].parent_id
           answer == IF fail THEN "error" ELSE CreateResourceAnswer(gw_resources, parent, seg)
           rec == Logged(run[r], <<Call("create_resource", parent,
                                        BuiltPath(run[r].built_path, seg), "", answer)>>)
       IN  IF answer = "ok"
           THEN /\ gw_resources' = CreateResource(gw_resources, parent, seg)
                /\ Set(r, AfterCreate(rec, NewId(gw_resources)))
           ELSE /\ gw_resources' = gw_resources
                /\ Set(r, Raise(rec, "ClientError"))
    /\ UNCHANGED <<apis, gw_methods, gw_integrations, deployments, functions, policy,
                   config, env, initial, invocation>>

\* The remote call of ensure_method_and_integration that fails, if any.
FailPoints == {"none", "get_method", "put_method", "get_integration", "put_integration"}

\* A put_method on every probe that answered.
CallsPutMethodAlways(probe) == probe # "error"

\* lines 47-53: put_method is called when the probe answered not-found
CallsPutMethod(probe) == probe = "NotFoundException"

\* A put_integration only where there is no integration yet.
CallsPutIntegrationIfAbsent(probe) == probe = "NotFoundException"

\* lines 62-80: put_integration is called whether get_integration found an integration
\* or answered not-found
CallsPutIntegration(probe) == probe \in {"ok", "NotFoundException"}

\* lines 48-53: the method put_method creates
NewMethod == [authorizationType |-> "NONE"]

\* lines 43-80: ensure_method_and_integration for the run's resource and its next verb,
\* and the heads of the two loops of main() (lines 152 and 155) that follow it. The
\* verbs of line 155 are upper case, so line 44 leaves them as they are. failAt names
\* the remote call that fails, if one does.
EnsureMethodAndIntegration(r, failAt) ==
    /\ run[r].pc = "ensure_method"
    /\ LET rec == run[r]
           rid == rec.resource_id
           verb == Methods[rec.m]
           key == <<rid, verb>>
           probe == IF failAt = "get_method" THEN "error"
                    ELSE IF key \in DOMAIN gw_methods THEN "ok" ELSE "NotFoundException"
           puts == CallsPutMethod(probe)
           uri == InvocationUri(rec.lambda_arn, MethodRegion(env))
           probe2 == IF failAt = "get_integration" THEN "error"
                     ELSE IF key \in DOMAIN gw_integrations THEN "ok" ELSE "NotFoundException"
           reached2 == failAt \notin {"get_method", "put_method"}
           reached3 == reached2 /\ CallsPutIntegration(probe2)
           calls == <<Call("get_method", rid, <<>>, verb, probe)>>
                    \o (IF puts THEN <<Call("put_method", rid, <<>>, verb,
                                            IF failAt = "put_method" THEN "error" ELSE "ok")>>
                        ELSE <<>>)
                    \o (IF reached2 THEN <<Call("get_integration", rid, <<>>, verb, probe2)>>
                        ELSE <<>>)
                    \o (IF reached3 THEN <<Call("put_integration", rid, <<>>, verb,
                                                IF failAt = "put_integration" THEN "error" ELSE "ok")>>
                        ELSE <<>>)
       IN  /\ failAt = "put_method" => puts
           /\ gw_methods' = IF puts /\ failAt # "put_method"
                            THEN (key :> NewMethod) @@ gw_methods
                            ELSE gw_methods
           /\ failAt = "put_integration" => reached3
           /\ gw_integrations' = IF reached3 /\ failAt # "put_integration"
                                 THEN (key :> ProxyIntegration(uri)) @@ gw_integrations
                                 ELSE gw_integrations
           /\ Set(r, IF failAt # "none" THEN Raise(Logged(rec, calls), "ClientError")
                     ELSE IF rec.m = Len(Methods) THEN NextPath(Logged(rec, calls))
                     ELSE [Logged(rec, calls) EXCEPT !.m = rec.m + 1])
    /\ UNCHANGED <<apis, gw_resources, deployments, functions, policy, config, env, initial,
                   invocation>>

\* No exception of add_permission is caught.
SwallowedNone(answer) == FALSE

\* Every exception of add_permission is caught.
SwallowedEvery(answer) == TRUE

\* lines 95-96: the conflict is swallowed, every other failure propagates
Swallowed(answer) == answer = "ResourceConflictException"

\* lines 88-94: the statement add_permission adds
Statement(sid, source_arn) ==
    [Sid |-> sid, Action |-> "lambda:InvokeFunction",
     Principal |-> "apigateway.amazonaws.com", SourceArn |-> source_arn]

\* lines 83-96 and 159-160: add_permission_for_apigw
AddPermission(r, fail) ==
    /\ run[r].pc = "add_permission"
    /\ LET rec == run[r]
           fn == SplitLast(rec.lambda_arn, ":function:")
           sid == StatementId(rec.lambda_arn, rec.rest_api_id)
           source_arn == SourceArn(rec.region, rec.account_id, rec.rest_api_id)
           answer == IF fail THEN "error" ELSE AddPermissionAnswer(policy[fn], sid)
           logged == Logged(rec, <<Call("add_permission", RootId, sid, "", answer)>>)
       IN  /\ policy' = IF answer = "ok"
                        THEN [policy EXCEPT ![fn] = Append(@, Statement(sid, source_arn))]
                        ELSE policy
           /\ Set(r, IF answer = "ok" \/ Swallowed(answer)
                     THEN IF After("add_permission") = "paths" THEN NextPath(logged)
                          ELSE [logged EXCEPT !.pc = After("add_permission")]
                     ELSE Raise(logged, "ClientError"))
    /\ UNCHANGED <<apis, gw_resources, gw_methods, gw_integrations, deployments, functions,
                   config, env, initial, invocation>>

\* lines 99-100 and 161-162: deploy_stage, and the end of main()
DeployStage(r, fail) ==
    /\ run[r].pc = "create_deployment"
    /\ LET logged == Logged(run[r], <<Call("create_deployment", RootId, <<>>, "",
                                           IF fail THEN "error" ELSE "ok")>>)
       IN  IF fail
           THEN /\ deployments' = deployments
                /\ Set(r, Raise(logged, "ClientError"))
           ELSE /\ deployments' = Append(deployments,
                                         [restApiId |-> run[r].rest_api_id, stageName |-> Stage])
                /\ Set(r, [logged EXCEPT !.pc = After("create_deployment")])
    /\ UNCHANGED <<apis, gw_resources, gw_methods, gw_integrations, functions, policy,
                   config, env, initial, invocation>>

\* No handler is invoked while the routes are synchronised.
NoInvocation == [module |-> NONE, event |-> <<>>, responses |-> <<>>]

\* ------------------------------------------------------------------ the inputs

\* --module
Modules == {"users"}

StrElem(s) == [t |-> "str", s |-> s, n |-> 0]
NumElem(n) == [t |-> "num", s |-> <<>>, n |-> n]

\* The path strings a config.json is drawn from.
PathPool == {<<"/", "a">>, <<"/", "a", "/", "b">>}

\* The desired-path lists: every list of at most MaxPaths pool paths.
PathLists == UNION {[1..n -> {StrElem(p) : p \in PathPool}] : n \in 0..MaxPaths}

Json(kind, items) == [kind |-> kind, items |-> items]

\* The config.json files that hold an array: of pool paths, of the root path, of a path
\* beside /a that /a is a string prefix of, of a path with a trailing slash, and one
\* with an element that is no string.
ArrayConfigs ==
    {Json("array", l) : l \in PathLists}
    \cup {Json("array", <<StrElem(<<"/">>)>>),
          Json("array", <<StrElem(<<"/", "a", "b">>), StrElem(<<"/", "a">>)>>),
          Json("array", <<StrElem(<<"/", "a">>), NumElem(12)>>),
          Json("array", <<StrElem(<<"/", "b", "/">>)>>)}

\* What the module's config.json may hold: no file, no JSON, a JSON value that is no
\* array, or an array.
ConfigPool ==
    {Json("missing", <<>>), Json("malformed", <<>>), Json("object", <<>>), Json("string", <<>>)}
    \cup ArrayConfigs

\* The REST APIs of the account: with the gateway (after another API), and without it.
ApiPool ==
    {<<[name |-> "MainApiGatewayOld", id |-> "g0"], [name |-> "MainApiGateway", id |-> "g1"]>>,
     <<[name |-> "MainApiGatewayOld", id |-> "g0"]>>}

\* The functions of the handler registry: both handlers, or the orders handler alone.
FunctionPool ==
    {{<<LambdaNamePrefix, "users">>, <<LambdaNamePrefix, "orders">>},
     {<<LambdaNamePrefix, "orders">>}}

\* The region sources: the session's region set, or only the environment's.
EnvPool ==
    {[session |-> "eu-west-1", AWS_REGION |-> NONE, AWS_DEFAULT_REGION |-> NONE,
      sts_meta |-> "eu-west-1"],
     [session |-> NONE, AWS_REGION |-> "us-west-2", AWS_DEFAULT_REGION |-> NONE,
      sts_meta |-> NONE]}

Root == [parentId |-> 0 - 1, pathPart |-> <<>>, path |-> <<"/">>]
Node(parentId, pathPart, path) == [parentId |-> parentId, pathPart |-> pathPart, path |-> path]

OrdersUri == InvocationUri(FunctionArn(<<LambdaNamePrefix, "orders">>), "us-east-1")

\* The gateway before the first run: the root alone; /a with a method that requires
\* authorization and forwards to the orders handler and a method without integration;
\* /ab of the orders module beside /a and /a/b.
TreePool ==
    {[resources |-> (RootId :> Root),
      methods |-> <<>>,
      integrations |-> <<>>],
     [resources |-> (RootId :> Root) @@ (1 :> Node(RootId, <<"a">>, <<"/", "a">>)),
      methods |-> (<<1, "GET">> :> [authorizationType |-> "AWS_IAM"])
                  @@ (<<1, "POST">> :> [authorizationType |-> "NONE"]),
      integrations |-> (<<1, "GET">> :> [type |-> "HTTP_PROXY", integrationHttpMethod |-> "GET",
                                         uri |-> OrdersUri])],
     [resources |-> (RootId :> Root) @@ (1 :> Node(RootId, <<"a", "b">>, <<"/", "a", "b">>))
                    @@ (2 :> Node(RootId, <<"a">>, <<"/", "a">>))
                    @@ (3 :> Node(2, <<"b">>, <<"/", "a", "/", "b">>)),
      methods |-> (<<1, "GET">> :> [authorizationType |-> "NONE"]),
      integrations |-> (<<1, "GET">> :> ProxyIntegration(OrdersUri))]}

\* ------------------------------------------------------------------ the specification

\* The gateway and the handlers provisioned, the session's region set: every array
\* config on every gateway content.
InitProvisioned ==
    /\ apis = <<[name |-> "MainApiGatewayOld", id |-> "g0"], [name |-> ApiName, id |-> "g1"]>>
    /\ functions = {<<LambdaNamePrefix, "users">>, <<LambdaNamePrefix, "orders">>}
    /\ env = [session |-> "eu-west-1", AWS_REGION |-> NONE, AWS_DEFAULT_REGION |-> NONE,
              sts_meta |-> "eu-west-1"]
    /\ \E c \in ArrayConfigs : config = [mod \in Modules |-> c]
    /\ initial \in TreePool

\* A gateway that holds the root alone: every surrounding of the run and every config.
InitBare ==
    /\ apis \in ApiPool
    /\ functions \in FunctionPool
    /\ env \in EnvPool
    /\ \E c \in ConfigPool : config = [mod \in Modules |-> c]
    /\ initial \in {t \in TreePool : DOMAIN t.resources = {RootId}}

Init ==
    /\ InitProvisioned \/ InitBare
    /\ policy = [fn \in functions |-> <<>>]
    /\ gw_resources = initial.resources
    /\ gw_methods = initial.methods
    /\ gw_integrations = initial.integrations
    /\ deployments = <<>>
    /\ run = [r \in Runs |-> IdleRun]
    /\ invocation = NoInvocation

Next ==
    \E r \in Runs :
       \/ \E module \in Modules : StartRun(r, module)
       \/ \E fail \in BOOLEAN : GetCallerIdentity(r, fail)
       \/ \E fail \in BOOLEAN : FindRestApi(r, fail)
       \/ \E fail \in BOOLEAN : GetFunction(r, fail)
       \/ LoadPaths(r)
       \/ \E fail \in BOOLEAN : GetResources(r, fail)
       \/ \E fail \in BOOLEAN : CreateMissing(r, fail)
       \/ \E failAt \in FailPoints : EnsureMethodAndIntegration(r, failAt)
       \/ \E fail \in BOOLEAN : AddPermission(r, fail)
       \/ \E fail \in BOOLEAN : DeployStage(r, fail)

Spec == Init /\ [][Next]_vars

\* ------------------------------------------------------------------ views for the properties

\* The run in progress, or the last one that ran: its log and locals are still there.
Current(r) == run[r].pc # "idle" /\ (r = MaxRuns \/ run[r + 1].pc = "idle")

Paths(res) == {res[k].path : k \in DOMAIN res}

\* The /-joined path of a list of segments.
RECURSIVE PathOfSegments(_)
PathOfSegments(segs) ==
    IF segs = <<>> THEN <<"/">>
    ELSE IF Len(segs) = 1 THEN <<"/">> \o segs[1]
    ELSE PathOfSegments(SubSeq(segs, 1, Len(segs) - 1)) \o <<"/">> \o segs[Len(segs)]

\* The path parts from the root down to the resource id, following the parent ids.
RECURSIVE Chain(_, _)
Chain(res, id) ==
    IF id = RootId \/ id \notin DOMAIN res THEN <<>>
    ELSE Append(Chain(res, res[id].parentId), res[id].pathPart)

\* q is a segment-wise prefix of d
SegmentPrefix(q, d) == Len(q) <= Len(d) /\ SubSeq(d, 1, Len(q)) = q

\* A path that begins with "/" and has no empty segment (the root among them).
WellFormed(path) == path = PathOfSegments(Segments(path))

\* The (path, verb) pairs that have a method.
MethodPairs(res, meths) == {<<res[key[1]].path, key[2]>> : key \in DOMAIN meths}

\* The calls of a log that wrote and were answered ok.
Wrote(log, ops) == {k \in 1..Len(log) : log[k].op \in ops /\ log[k].res = "ok"}

\* The calls of a log, whatever their answer.
Issued(log, ops) == {k \in 1..Len(log) : log[k].op \in ops}

\* How many of its paths a run has reconciled.
Reconciled(rec) ==
    IF rec.pc \in {"add_permission", "create_deployment", "done"} THEN Len(rec.paths)
    ELSE IF rec.pc \in {"get_resources", "walk", "ensure_method"} THEN rec.i - 1
    ELSE 0

\* ------------------------------------------------------------------ the properties

\* C1 Idempotence of a run: a run that follows a run which was not cut short by a
\* remote failure, with the same desired-path list, issues no create_resource and no
\* put_method call, and leaves the resource tree and the set of (resource, method)
\* pairs as that earlier run left them.
C1_Idempotence ==
    \A r \in Runs :
       (r > 1 /\ Current(r) /\ run[r - 1].error # "ClientError") =>
          /\ Issued(run[r].log, {"create_resource", "put_method"}) = {}
          /\ gw_resources = run[r].before.resources
          /\ DOMAIN gw_methods = DOMAIN run[r].before.methods

\* A second complete run after a complete first run that created resources.
C1_Witness ==
    /\ run[1].pc = "done" /\ run[2].pc = "done"
    /\ DOMAIN gw_resources # DOMAIN initial.resources
    /\ Issued(run[2].log, {"put_integration"}) # {}

\* C2 Tree completeness: when ensure_path has returned for a well-formed path P, the
\* id it returned is a resource whose path is P and whose parents up to the root spell
\* P's segments, and every prefix of P is a resource; and so it is for every path
\* reconciled so far.
C2_TreeCompleteness ==
    \A r \in Runs :
       Current(r) =>
          /\ (run[r].pc = "ensure_method" /\ WellFormed(run[r].path)) =>
                /\ run[r].resource_id \in DOMAIN gw_resources
                /\ gw_resources[run[r].resource_id].path = run[r].path
                /\ Chain(gw_resources, run[r].resource_id) = Segments(run[r].path)
          /\ \A j \in 1..Reconciled(run[r]) :
                LET segs == Segments(run[r].paths[j])
                IN  WellFormed(run[r].paths[j]) =>
                       \A n \in 0..Len(segs) :
                          \E k \in DOMAIN gw_resources :
                             /\ gw_resources[k].path = PathOfSegments(SubSeq(segs, 1, n))
                             /\ Chain(gw_resources, k) = SubSeq(segs, 1, n)

\* ensure_path has returned for /a/b after creating both /a and /a/b.
C2_Witness ==
    \E r \in Runs :
       /\ run[r].pc = "ensure_method"
       /\ run[r].path = <<"/", "a", "/", "b">>
       /\ Cardinality(Wrote(run[r].log, {"create_resource"})) = 2

\* C3 No cross-module interference: what a run with the desired paths D has created or
\* written so far lies on the way to a path of D (a created resource's segments are a
\* prefix of a desired path's segments, a written method or integration belongs to a
\* resource that is, as does every put_method and put_integration call), and what the
\* gateway held before the run elsewhere is as it was.
C3_OnPath(r) ==
    {k \in DOMAIN gw_resources :
       \E j \in 1..Len(run[r].paths) :
          SegmentPrefix(Chain(gw_resources, k), Segments(run[r].paths[j]))}

C3_NoInterference ==
    \A r \in Runs :
       Current(r) =>
          LET b == run[r].before
              onPath == C3_OnPath(r)
          IN  /\ \A k \in DOMAIN gw_resources \ DOMAIN b.resources : k \in onPath
              /\ \A k \in DOMAIN b.resources :
                    k \in DOMAIN gw_resources /\ gw_resources[k] = b.resources[k]
              /\ \A key \in DOMAIN gw_methods :
                    (key \notin DOMAIN b.methods \/ gw_methods[key] # b.methods[key])
                       => key[1] \in onPath
              /\ \A key \in DOMAIN gw_integrations :
                    (key \notin DOMAIN b.integrations \/ gw_integrations[key] # b.integrations[key])
                       => key[1] \in onPath
              /\ \A key \in DOMAIN b.methods : key \in DOMAIN gw_methods
              /\ \A key \in DOMAIN b.integrations : key \in DOMAIN gw_integrations
              /\ \A n \in Issued(run[r].log, {"put_method", "put_integration"}) :
                    run[r].log[n].rid \in onPath

\* A run for /a has ended on a gateway that held /ab and /a/b with the orders module's
\* GET on /ab, which is as it was.
C3_Witness ==
    \E r \in Runs :
       /\ run[r].pc = "done"
       /\ run[r].paths = <<(<<"/", "a">>)>>
       /\ \E k \in DOMAIN gw_resources :
             /\ gw_resources[k].path = <<"/", "a", "b">>
             /\ <<k, "GET">> \in DOMAIN gw_integrations
             /\ gw_integrations[<<k, "GET">>].uri = OrdersUri
             /\ <<k, "POST">> \notin DOMAIN gw_methods

\* The six verbs, in the order main() reconciles them.
SixVerbs == <<"GET", "POST", "PUT", "DELETE", "PATCH", "OPTIONS">>

\* The remote calls that write.
WriteOps == {"create_resource", "put_method", "put_integration", "add_permission",
             "create_deployment"}

\* The invocation URI of a handler ARN, in some region.
InvokesHandler(uri, lambda_arn) ==
    /\ Len(uri) = Len(lambda_arn) + 4
    /\ uri[1] = "arn:aws:apigateway:"
    /\ uri[2] \in {"us-east-1", "eu-west-1", "us-west-2"}
    /\ uri[3] = ":lambda:path/2015-03-31/functions/"
    /\ SubSeq(uri, 4, Len(uri) - 1) = lambda_arn
    /\ uri[Len(uri)] = "/invocations"

\* C4 Method coverage: every path the run has reconciled is a resource with all six
\* methods, each with an integration of proxy style, invoked by POST, whose target is
\* the invocation URI of the handler ARN the run resolved.
C4_MethodCoverage ==
    \A r \in Runs :
       Current(r) =>
          \A j \in 1..Reconciled(run[r]) :
             \E k \in DOMAIN gw_resources :
                /\ gw_resources[k].path = run[r].paths[j]
                /\ \A n \in 1..Len(SixVerbs) :
                      LET key == <<k, SixVerbs[n]>>
                      IN  /\ key \in DOMAIN gw_methods
                          /\ key \in DOMAIN gw_integrations
                          /\ gw_integrations[key].type = "AWS_PROXY"
                          /\ gw_integrations[key].integrationHttpMethod = "POST"
                          /\ InvokesHandler(gw_integrations[key].uri,
                                            <<"arn:aws:lambda:", "us-east-1", ":", "111",
                                              ":function:", "project-", "users">>)
                          /\ InvokesHandler(gw_integrations[key].uri, run[r].lambda_arn)

\* A run has ended that reconciled /a, whose GET forwarded to the orders handler by
\* another integration style before the first run.
C4_Witness ==
    \E r \in Runs :
       /\ run[r].pc = "done"
       /\ \E j \in 1..Len(run[r].paths) : run[r].paths[j] = <<"/", "a">>
       /\ <<1, "GET">> \in DOMAIN initial.integrations
       /\ initial.resources[1].path = <<"/", "a">>
       /\ initial.integrations[<<1, "GET">>].type = "HTTP_PROXY"
       /\ gw_integrations[<<1, "GET">>].uri # OrdersUri

\* C5 Permission idempotence: the statement id of every grant is made of the gateway
\* id and the handler name alone; no policy holds two statements of one id; a grant
\* that the registry answered, with ok or with a conflict, does not end the run, and
\* after it the handler's policy holds exactly one invoke statement of that id.
C5_Sid == <<"apigw-", "g1", "-", "project-", "users">>

C5_PermissionIdempotence ==
    /\ \A fn \in DOMAIN policy :
          \A a, b \in 1..Len(policy[fn]) : policy[fn][a].Sid = policy[fn][b].Sid => a = b
    /\ \A r \in Runs :
          Current(r) =>
             \A k \in Issued(run[r].log, {"add_permission"}) :
                LET pol == policy[<<"project-", "users">>]
                IN  /\ run[r].log[k].path = C5_Sid
                    /\ run[r].log[k].res # "error" =>
                          /\ ~(run[r].pc = "failed" /\ k = Len(run[r].log))
                          /\ Cardinality({a \in 1..Len(pol) :
                                            /\ pol[a].Sid = C5_Sid
                                            /\ pol[a].Action = "lambda:InvokeFunction"
                                            /\ pol[a].Principal = "apigateway.amazonaws.com"}) = 1

\* A second run's grant met the statement of the first run's grant, and the run ended well.
C5_Witness ==
    /\ run[1].pc = "done" /\ run[2].pc = "done"
    /\ \E k \in Issued(run[2].log, {"add_permission"}) :
          run[2].log[k].res = "ResourceConflictException"
    /\ Len(policy[<<"project-", "users">>]) = 1

\* The JSON values that are no array.
NotAnArray == {"object", "string"}

\* C6 as the spec states it: a run that ends with the configuration error of a config
\* file that holds no array has made no remote call.
C6_NoRemoteCallBeforeRejection ==
    \A r \in Runs :
       (Current(r) /\ run[r].error = "ValueError") => run[r].log = <<>>

\* C6, amended: with a config file that holds a JSON value that is no array, a run
\* never gets to list the tree or to write; when its three lookups (caller identity,
\* gateway, handler) are answered, it ends with the configuration error, having made
\* no remote call but the reads of these three lookups.
C6_RejectionBeforeAnyWrite ==
    \A r \in Runs :
       (Current(r) /\ config[run[r].module].kind \in NotAnArray) =>
          LET log == run[r].log
          IN  /\ Issued(log, WriteOps \cup {"get_resources", "get_method", "get_integration"}) = {}
              /\ run[r].pc \in {"get_caller_identity", "get_rest_apis", "get_function",
                                "load_paths", "failed"}
              /\ run[r].error = "ValueError" =>
                    /\ [k \in 1..Len(log) |-> log[k].op]
                          = <<"get_caller_identity", "get_rest_apis", "get_function">>
                    /\ \A k \in 1..Len(log) : log[k].res = "ok"
              /\ (run[r].pc = "failed" /\ Len(log) = 3 /\ log[3].res = "ok")
                    => run[r].error = "ValueError"

\* A run has ended with the configuration error of a config file holding a JSON object.
C6_Witness ==
    \E r \in Runs :
       /\ run[r].pc = "failed"
       /\ run[r].error = "ValueError"
       /\ config[run[r].module].kind = "object"
       /\ Len(run[r].log) = 3

\* The errors of the steps before the loop over the paths.
PreflightErrors == {"RuntimeError", "ResourceNotFoundException", "FileNotFoundError",
                    "JSONDecodeError", "ValueError"}

\* C7 Pre-flight failures mutate nothing: a run that ends because no API has the
\* gateway's exact name, the handler is not found, or config.json is missing or
\* malformed has issued no writing call, and the gateway, the policies, the
\* deployments, the APIs and the functions are as the run found them.
C7_PreflightMutatesNothing ==
    \A r \in Runs :
       (Current(r) /\ run[r].pc = "failed" /\ run[r].error \in PreflightErrors) =>
          /\ Issued(run[r].log, WriteOps) = {}
          /\ gw_resources = run[r].before.resources
          /\ gw_methods = run[r].before.methods
          /\ gw_integrations = run[r].before.integrations
          /\ policy = run[r].before.policy
          /\ deployments = run[r].before.deployments
          /\ find_rest_api_id_by_name(apis, ApiName) = NONE <=> run[r].error = "RuntimeError"
          /\ run[r].error = "ResourceNotFoundException" => <<"project-", "users">> \notin functions

\* A run has ended because no API is named exactly MainApiGateway, though one is named
\* MainApiGatewayOld.
C7_Witness ==
    \E r \in Runs :
       /\ run[r].pc = "failed"
       /\ run[r].error = "RuntimeError"
       /\ \E k \in 1..Len(apis) : apis[k].name = "MainApiGatewayOld"
       /\ Len(run[r].log) = 2

\* C8 as the spec states it: the desired paths load only from an array whose elements
\* are all strings.
C8_OnlyListsOfStringsLoad ==
    \A r \in Runs :
       (Current(r) /\ run[r].pc \in {"get_resources", "walk", "ensure_method",
                                     "add_permission", "create_deployment", "done"}) =>
          /\ config[run[r].module].kind = "array"
          /\ \A k \in 1..Len(config[run[r].module].items) :
                config[run[r].module].items[k].t = "str"

\* Where a run stands in the order of main() after some of its remote calls: the
\* step done last, the number j of the path in work, the number n of its verb in work,
\* the resource and the answer of the last call.
C9_Start == [step |-> "start", j |-> 0, n |-> 0, rid |-> RootId, res |-> "ok"]

\* The order of main(): where the run stands after the call c, or "out of order".
C9_Step(st, c, paths, res) ==
    LET six == Len(SixVerbs)
        to(step) == [st EXCEPT !.step = step, !.res = c.res]
        pathDone == (st.step = "get_function" /\ st.j = 0) \/ (st.step = "put_integration" /\ st.n = six)
    IN  IF st.res \notin {"ok", "NotFoundException", "ResourceConflictException"}
        THEN to("out of order")
        ELSE CASE c.op = "get_caller_identity" /\ st.step = "start" -> to(c.op)
               [] c.op = "get_rest_apis" /\ st.step = "get_caller_identity" -> to(c.op)
               [] c.op = "get_function" /\ st.step = "get_rest_apis" -> to(c.op)
               [] c.op = "get_resources" /\ pathDone /\ st.j < Len(paths) ->
                     [to(c.op) EXCEPT !.j = st.j + 1, !.n = 0]
               [] c.op = "create_resource" /\ st.step \in {"get_resources", "create_resource"} ->
                     to(c.op)
               [] /\ c.op = "get_method"
                  /\ \/ st.step \in {"get_resources", "create_resource"}
                     \/ st.step = "put_integration" /\ st.n < six
                  /\ c.verb = SixVerbs[st.n + 1]
                  /\ c.rid \in DOMAIN res
                  /\ res[c.rid].path = paths[st.j] ->
                     [to(c.op) EXCEPT !.n = st.n + 1, !.rid = c.rid]
               [] /\ c.op = "put_method" /\ st.step = "get_method"
                  /\ st.res = "NotFoundException"
                  /\ c.verb = SixVerbs[st.n] /\ c.rid = st.rid -> to(c.op)
               [] /\ c.op = "get_integration"
                  /\ \/ st.step = "get_method" /\ st.res = "ok"
                     \/ st.step = "put_method"
                  /\ c.verb = SixVerbs[st.n] /\ c.rid = st.rid -> to(c.op)
               [] /\ c.op = "put_integration" /\ st.step = "get_integration"
                  /\ c.verb = SixVerbs[st.n] /\ c.rid = st.rid -> to(c.op)
               [] c.op = "add_permission" /\ pathDone /\ st.j = Len(paths) -> to(c.op)
               [] c.op = "create_deployment" /\ st.step = "add_permission" -> to(c.op)
               [] OTHER -> to("out of order")

RECURSIVE C9_Stand(_, _, _, _)
C9_Stand(log, p, paths, res) ==
    IF p = 0 THEN C9_Start ELSE C9_Step(C9_Stand(log, p - 1, paths, res), log[p], paths, res)

\* C9 Orchestrator ordering, on the log of a run's remote calls: the calls come in the
\* order of main() (the three lookups; then path by path in input order the listing,
\* the creations, and verb by verb in the order GET, POST, PUT, DELETE, PATCH, OPTIONS
\* the probe, the put_method of a missing method, get_integration and put_integration;
\* then one add_permission, after the last verb of the last path; then one
\* create_deployment), and no call follows a failed one; a run ends well exactly when
\* its create_deployment was answered, whatever it created; and there are as many
\* deployments as runs that ended well.
C9_Ordering ==
    /\ Len(deployments) = Cardinality({r \in Runs : run[r].pc = "done"})
    /\ \A r \in Runs :
          Current(r) =>
             LET log == run[r].log
                 st == C9_Stand(log, Len(log), run[r].paths, gw_resources)
             IN  /\ st.step # "out of order"
                 /\ run[r].pc = "done" <=> (st.step = "create_deployment" /\ st.res = "ok")
                 /\ run[r].pc = "done" =>
                       /\ Cardinality(Issued(log, {"add_permission"})) = 1
                       /\ Cardinality(Issued(log, {"create_deployment"})) = 1
                       /\ Cardinality(Wrote(log, {"put_integration"}))
                             = Len(SixVerbs) * Len(run[r].paths)
                 /\ run[r].pc = "failed" => Wrote(log, {"create_deployment"}) = {}
                 /\ Len(deployments) - Len(run[r].before.deployments)
                       = Cardinality(Wrote(log, {"create_deployment"}))

\* A second run of two paths that created nothing has made the second deployment.
C9_Witness ==
    /\ run[2].pc = "done"
    /\ Len(run[2].paths) = 2
    /\ Wrote(run[2].log, {"create_resource", "put_method"}) = {}
    /\ Len(deployments) = 2

\* The resources a complete run of the paths D leaves on a gateway that held `res`.
C10_ExpectedPaths(res, D) ==
    Paths(res) \cup UNION {{PathOfSegments(SubSeq(Segments(D[j]), 1, n)) :
                                n \in 0..Len(Segments(D[j]))} : j \in 1..Len(D)}

\* The (path, verb) pairs a complete run of the paths D leaves.
C10_ExpectedMethods(res, meths, D) ==
    MethodPairs(res, meths) \cup {<<D[j], SixVerbs[n]>> : <<j, n>> \in (1..Len(D)) \X (1..Len(SixVerbs))}

\* C10 Abort and rerun: what a run found on the gateway stays (so what an aborted run
\* created is there for the next run); a run creates only what it found missing (no
\* create_resource for a path the gateway held, none answered with a conflict, no two
\* for one path, and the same for put_method); no two resources have one path; and a
\* run that ends well, the first or one after any aborted runs, leaves the resources
\* and the methods a complete run from the first state leaves: those of the first
\* state, every prefix of every desired path, and the six verbs on every desired path.
C10_AbortAndRerun ==
    /\ Cardinality(Paths(gw_resources)) = Cardinality(DOMAIN gw_resources)
    /\ \A k \in DOMAIN gw_resources : gw_resources[k].path = PathOfSegments(Chain(gw_resources, k))
    /\ \A r \in Runs :
          Current(r) =>
             LET log == run[r].log
                 b == run[r].before
             IN  /\ \A k \in DOMAIN b.resources :
                       k \in DOMAIN gw_resources /\ gw_resources[k] = b.resources[k]
                 /\ \A key \in DOMAIN b.methods : key \in DOMAIN gw_methods
                 /\ \A k \in Issued(log, {"create_resource"}) :
                       /\ log[k].res \in {"ok", "error"}
                       /\ log[k].path \notin Paths(b.resources)
                       /\ \A k2 \in Issued(log, {"create_resource"}) :
                             log[k2].path = log[k].path => k2 = k
                 /\ \A k \in Issued(log, {"put_method"}) :
                       /\ <<log[k].rid, log[k].verb>> \notin DOMAIN b.methods
                       /\ \A k2 \in Issued(log, {"put_method"}) :
                             (log[k2].rid = log[k].rid /\ log[k2].verb = log[k].verb) => k2 = k
                 /\ run[r].pc = "done" =>
                       /\ Paths(gw_resources) = C10_ExpectedPaths(initial.resources, run[r].paths)
                       /\ MethodPairs(gw_resources, gw_methods)
                             = C10_ExpectedMethods(initial.resources, initial.methods, run[r].paths)

\* A run was aborted by a remote failure after it had created a resource, and the next
\* run created a missing resource and missing methods and ended well.
C10_Witness ==
    /\ run[1].pc = "failed" /\ run[1].error = "ClientError"
    /\ run[2].pc = "done"
    /\ DOMAIN run[2].before.resources # DOMAIN initial.resources
    /\ Wrote(run[2].log, {"create_resource"}) # {}
    /\ Wrote(run[2].log, {"put_method"}) # {}

\* ------------------------------------------------------------------ runs with changing lists

\* The desired-path lists config.json is edited to between runs: the empty list, /a
\* alone and /a/b alone.
EditPool == {Json("array", l) : l \in {q \in PathLists : Len(q) <= 1}}

\* Between two runs the module's config.json is replaced by another list.
EditConfig(c) ==
    /\ \A r \in Runs : run[r].pc \in {"idle", "done", "failed"}
    /\ \E r \in Runs : run[r].pc = "idle"
    /\ \E r \in Runs : run[r].pc # "idle"
    /\ \E mod \in Modules : config[mod] # c
    /\ config' = [mod \in Modules |-> c]
    /\ UNCHANGED <<remote, env, initial, run, invocation>>

InitEdits ==
    /\ apis = <<[name |-> "MainApiGatewayOld", id |-> "g0"], [name |-> ApiName, id |-> "g1"]>>
    /\ functions = {<<LambdaNamePrefix, "users">>, <<LambdaNamePrefix, "orders">>}
    /\ env = [session |-> "eu-west-1", AWS_REGION |-> NONE, AWS_DEFAULT_REGION |-> NONE,
              sts_meta |-> "eu-west-1"]
    /\ \E c \in EditPool : config = [mod \in Modules |-> c]
    /\ initial \in TreePool
    /\ policy = [fn \in functions |-> <<>>]
    /\ gw_resources = initial.resources
    /\ gw_methods = initial.methods
    /\ gw_integrations = initial.integrations
    /\ deployments = <<>>
    /\ run = [r \in Runs |-> IdleRun]
    /\ invocation = NoInvocation

NextEdits ==
    \/ Next
    \/ \E c \in EditPool : EditConfig(c)

SpecEdits == InitEdits /\ [][NextEdits]_vars

\* The operations of the gateway and of the handler registry that a run calls.
C11_Ops == {"get_caller_identity", "get_rest_apis", "get_function", "get_resources",
            "create_resource", "get_method", "put_method", "get_integration",
            "put_integration", "add_permission", "create_deployment"}

\* C11 Additive only: over runs with changing desired-path lists, every step leaves
\* every resource of the gateway in place as it was (same id, parent, path part and
\* path), every (resource, method) pair and every integration in place, and every call
\* a run has issued is one of the reading, creating and putting operations: none deletes.
C11_AdditiveOnly ==
    [][/\ \A k \in DOMAIN gw_resources :
             k \in DOMAIN gw_resources' /\ gw_resources'[k] = gw_resources[k]
       /\ DOMAIN gw_methods \subseteq DOMAIN gw_methods'
       /\ DOMAIN gw_integrations \subseteq DOMAIN gw_integrations'
       /\ \A r \in Runs : \A k \in 1..Len(run'[r].log) : run'[r].log[k].op \in C11_Ops]_vars

\* A run reconciled /a/b; config.json was then edited to a list that does not declare
\* it; the next run ended well, and /a/b is there with its six methods.
C11_Witness ==
    /\ run[1].pc = "done" /\ run[1].paths = <<(<<"/", "a", "/", "b">>)>>
    /\ run[2].pc = "done" /\ Len(run[2].paths) = 1 /\ run[2].paths # run[1].paths
    /\ DOMAIN initial.resources = {RootId}
    /\ \E k \in DOMAIN gw_resources :
          /\ gw_resources[k].path = <<"/", "a", "/", "b">>
          /\ \A n \in 1..Len(SixVerbs) : <<k, SixVerbs[n]>> \in DOMAIN gw_methods

\* ------------------------------------------------------------------ runs without mutual exclusion

\* --module, for processes of both modules
ModulesOfBoth == {"users", "orders"}

InProgress(rec) == rec.pc \notin {"idle", "done", "failed"}

\* lines 112-126 in a process started while another process of the script may be
\* running: nothing in the script waits for it. Two runs at most are in progress at a
\* time. Every run's log is kept.
StartRunBeside(r, module) ==
    /\ run[r].pc = "idle"
    /\ \A q \in Runs : q < r => run[q].pc # "idle"
    /\ Cardinality({q \in Runs : InProgress(run[q])}) < 2
    /\ run' = [q \in Runs |->
                 IF q = r
                 THEN [run[r] EXCEPT !.pc = "get_caller_identity",
                                     !.module = module,
                                     !.lambda_name = <<LambdaNamePrefix, module>>,
                                     !.before = [resources |-> gw_resources,
                                                 methods |-> gw_methods,
                                                 integrations |-> gw_integrations,
                                                 policy |-> policy,
                                                 deployments |-> deployments],
                                     !.overlapped = {o \in Runs : InProgress(run[o])}]
                 ELSE IF InProgress(run[q])
                      THEN [run[q] EXCEPT !.overlapped = @ \cup {r}]
                      ELSE run[q]]
    /\ UNCHANGED <<remote, config, env, initial, invocation>>

\* The users module declares /a and the orders module /a/b, on a gateway that holds
\* the root alone: the segment a is missing and shared.
InitBeside ==
    /\ apis = <<[name |-> "MainApiGatewayOld", id |-> "g0"], [name |-> ApiName, id |-> "g1"]>>
    /\ functions = {<<LambdaNamePrefix, "users">>, <<LambdaNamePrefix, "orders">>}
    /\ env = [session |-> "eu-west-1", AWS_REGION |-> NONE, AWS_DEFAULT_REGION |-> NONE,
              sts_meta |-> "eu-west-1"]
    /\ config = ("users" :> Json("array", <<StrElem(<<"/", "a">>)>>))
                 @@ ("orders" :> Json("array", <<StrElem(<<"/", "a", "/", "b">>)>>))
    /\ initial = [resources |-> (RootId :> Root), methods |-> <<>>, integrations |-> <<>>]
    /\ policy = [fn \in functions |-> <<>>]
    /\ gw_resources = initial.resources
    /\ gw_methods = initial.methods
    /\ gw_integrations = initial.integrations
    /\ deployments = <<>>
    /\ run = [r \in Runs |-> IdleRun]
    /\ invocation = NoInvocation

\* The processes interleave at their remote calls; of these, create_resource may fail.
NextBeside ==
    \E r \in Runs :
       \/ \E module \in ModulesOfBoth : StartRunBeside(r, module)
       \/ GetCallerIdentity(r, FALSE)
       \/ FindRestApi(r, FALSE)
       \/ GetFunction(r, FALSE)
       \/ LoadPaths(r)
       \/ GetResources(r, FALSE)
       \/ \E fail \in BOOLEAN : CreateMissing(r, fail)
       \/ EnsureMethodAndIntegration(r, "none")
       \/ AddPermission(r, FALSE)
       \/ DeployStage(r, FALSE)

SpecBeside == InitBeside /\ [][NextBeside]_vars

\* The create_resource calls issued so far: <<run, position in its log>>.
C12_Creates == UNION {{<<r, k>> : k \in Issued(run[r].log, {"create_resource"})} : r \in Runs}

C12_CallOf(c) == run[c[1]].log[c[2]]

\* Two runs that were never in progress at the same time (or one run).
C12_Serialized(r1, r2) == r1 = r2 \/ r2 \notin run[r1].overlapped

\* C12 as the spec states its second half: between serialized runs, no path is the
\* subject of two create_resource calls.
C12_SerializedNeverTwoCalls ==
    \A c1, c2 \in C12_Creates :
       (C12_Serialized(c1[1], c2[1]) /\ C12_CallOf(c1).path = C12_CallOf(c2).path) => c1 = c2

\* C12, amended: between serialized runs a path is the subject of a second
\* create_resource call only when the earlier call, of an earlier run, failed; no call
\* is issued for a path the gateway holds, so none is answered with a conflict. A call
\* is answered with a conflict only when a run that was in progress at the same time
\* created the same path under the same parent.
C12_DuplicateCreateOnlyWhenInterleaved ==
    /\ \A c1, c2 \in C12_Creates :
          (/\ C12_Serialized(c1[1], c2[1])
           /\ C12_CallOf(c1).path = C12_CallOf(c2).path
           /\ c1 # c2 /\ c1[1] <= c2[1])
             => /\ c1[1] < c2[1]
                /\ C12_CallOf(c1).res = "error"
                /\ C12_CallOf(c2).path \notin Paths(run[c2[1]].before.resources)
    /\ \A c \in C12_Creates :
          C12_CallOf(c).res = "ConflictException" =>
             \E o \in C12_Creates :
                /\ o[1] \in run[c[1]].overlapped
                /\ C12_CallOf(o).path = C12_CallOf(c).path
                /\ C12_CallOf(o).rid = C12_CallOf(c).rid
                /\ C12_CallOf(o).res = "ok"

\* Two runs in progress at the same time, one for /a and one for /a/b, both called
\* create_resource for /a under the root: one created it, the other was answered with
\* a conflict and ended with the error.
C12_Witness ==
    \E c1, c2 \in C12_Creates :
       /\ c1[1] # c2[1]
       /\ c2[1] \in run[c1[1]].overlapped
       /\ run[c1[1]].module # run[c2[1]].module
       /\ C12_CallOf(c1).path = <<"/", "a">> /\ C12_CallOf(c2).path = <<"/", "a">>
       /\ C12_CallOf(c1).rid = RootId /\ C12_CallOf(c2).rid = RootId
       /\ C12_CallOf(c1).res = "ok"
       /\ C12_CallOf(c2).res = "ConflictException"
       /\ run[c2[1]].pc = "failed"

\* ------------------------------------------------------------------ the steps of ensure_path

\* The path of a list of segments without its last.
C13_ParentSegments(path) == SubSeq(Segments(path), 1, Len(Segments(path)) - 1)

\* C13 Parent-before-child creation: a run about to call create_resource holds as
\* parent id the id of a resource of the gateway whose path is the partial path built
\* so far (the root before the first segment) and whose parents spell it; every
\* create_resource call of the log names as parent the resource whose parents spell
\* the path without its last segment; a call that follows another create_resource
\* call is one segment deeper, under the resource that call created.
C13_ParentBeforeChild ==
    \A r \in Runs :
       Current(r) =>
          LET log == run[r].log
          IN  /\ run[r].pc = "walk" =>
                    /\ run[r].parent_id \in DOMAIN gw_resources
                    /\ gw_resources[run[r].parent_id].path
                          = (IF run[r].built_path = <<>> THEN <<"/">> ELSE run[r].built_path)
                    /\ Chain(gw_resources, run[r].parent_id) = Segments(run[r].built_path)
                    /\ BuiltPath(run[r].built_path, Head(run[r].segments))
                          \notin Paths(gw_resources)
              /\ \A k \in Issued(log, {"create_resource"}) :
                    /\ log[k].rid \in DOMAIN gw_resources
                    /\ Segments(log[k].path) # <<>>
                    /\ Chain(gw_resources, log[k].rid) = C13_ParentSegments(log[k].path)
                    /\ gw_resources[log[k].rid].path
                          = PathOfSegments(C13_ParentSegments(log[k].path))
                    /\ log[k].res = "ok" =>
                          \E c \in DOMAIN gw_resources :
                             /\ gw_resources[c].parentId = log[k].rid
                             /\ gw_resources[c].path = log[k].path
                             /\ c > log[k].rid
                    /\ (k > 1 /\ log[k - 1].op = "create_resource") =>
                          /\ C13_ParentSegments(log[k].path) = Segments(log[k - 1].path)
                          /\ log[k].rid # log[k - 1].rid
                          /\ gw_resources[log[k].rid].parentId = log[k - 1].rid

\* A run created /a under the root and then /a/b under the resource it had just created.
C13_Witness ==
    \E r \in Runs :
       \E k \in Wrote(run[r].log, {"create_resource"}) :
          /\ k > 1
          /\ run[r].log[k - 1].op = "create_resource"
          /\ run[r].log[k - 1].rid = RootId
          /\ run[r].log[k].rid # RootId
          /\ run[r].log[k].path = <<"/", "a", "/", "b">>

\* C14 ensure_path on an existing path is read-only: a listing that is answered while
\* the run's path is a resource of the gateway ends ensure_path in the same step, with
\* the id of the resource that has this path, with the tree as it was and with no
\* create_resource call.
C14_ExistingPathReadOnly ==
    [][\A r \in Runs :
          (/\ run[r].pc = "get_resources"
           /\ run[r].path \in Paths(gw_resources)
           /\ Len(run'[r].log) = Len(run[r].log) + 1
           /\ run'[r].log[Len(run'[r].log)].op = "get_resources"
           /\ run'[r].log[Len(run'[r].log)].res = "ok")
             => /\ run'[r].pc = "ensure_method"
                /\ run'[r].resource_id \in DOMAIN gw_resources
                /\ gw_resources[run'[r].resource_id].path = run[r].path
                /\ gw_resources' = gw_resources
                /\ Issued(run'[r].log, {"create_resource"})
                      = Issued(run[r].log, {"create_resource"})]_vars

\* ensure_path has just returned for /a, which the gateway held before the first run
\* beside /ab and /a/b: the last call of the run is the listing.
C14_Witness ==
    \E r \in Runs :
       /\ run[r].pc = "ensure_method" /\ run[r].m = 1
       /\ run[r].path = <<"/", "a">>
       /\ run[r].log[Len(run[r].log)].op = "get_resources"
       /\ \E k \in DOMAIN initial.resources : initial.resources[k].path = <<"/", "a", "b">>
       /\ gw_resources[run[r].resource_id].path = <<"/", "a">>

\* ------------------------------------------------------------------ the steps of ensure_method_and_integration

\* Two calls of a log that name the same (resource, verb) pair.
SamePair(c1, c2) == c1.rid = c2.rid /\ c1.verb = c2.verb

\* C15 Method creation only when absent: a put_method call follows a get_method probe
\* of the same pair that answered not-found, and every such probe is followed by the
\* put_method; a probe that found the method (one the run found on the gateway, or
\* one it had added itself) is followed by get_integration and by no put_method; a
\* probe that failed is the run's last call, and the run has ended with its error. The
\* methods the run found are as they were, authorization setting included, and every
\* method it added has the authorization type NONE.
C15_MethodOnlyWhenAbsent ==
    \A r \in Runs :
       Current(r) =>
          LET log == run[r].log
              b == run[r].before
          IN  /\ \A k \in Issued(log, {"put_method"}) :
                    /\ k > 1
                    /\ log[k - 1].op = "get_method"
                    /\ log[k - 1].res = "NotFoundException"
                    /\ SamePair(log[k - 1], log[k])
                    /\ <<log[k].rid, log[k].verb>> \notin DOMAIN b.methods
              /\ \A k \in Issued(log, {"get_method"}) :
                    /\ log[k].res = "NotFoundException" =>
                          /\ k < Len(log)
                          /\ log[k + 1].op = "put_method"
                          /\ SamePair(log[k], log[k + 1])
                    /\ log[k].res = "ok" =>
                          /\ k < Len(log)
                          /\ log[k + 1].op = "get_integration"
                          /\ \/ <<log[k].rid, log[k].verb>> \in DOMAIN b.methods
                             \/ \E n \in Wrote(log, {"put_method"}) :
                                   n < k /\ SamePair(log[n], log[k])
                    /\ log[k].res = "error" =>
                          /\ k = Len(log)
                          /\ run[r].pc = "failed"
                          /\ run[r].error = "ClientError"
                    /\ log[k].res \in {"NotFoundException", "ok", "error"}
              /\ \A key \in DOMAIN b.methods :
                    key \in DOMAIN gw_methods /\ gw_methods[key] = b.methods[key]
              /\ \A key \in DOMAIN gw_methods \ DOMAIN b.methods :
                    /\ gw_methods[key].authorizationType = "NONE"
                    /\ \E k \in Wrote(log, {"put_method"}) : key = <<log[k].rid, log[k].verb>>

\* A run has ended well on the gateway whose GET on /a required AWS_IAM authorization:
\* it still does, and the run added PUT on /a.
C15_Witness ==
    \E r \in Runs :
       /\ run[r].pc = "done"
       /\ <<1, "GET">> \in DOMAIN initial.methods
       /\ gw_methods[<<1, "GET">>].authorizationType = "AWS_IAM"
       /\ \E k \in Wrote(run[r].log, {"put_method"}) :
             run[r].log[k].rid = 1 /\ run[r].log[k].verb = "PUT"
       /\ \E k \in Issued(run[r].log, {"get_method"}) :
             run[r].log[k].rid = 1 /\ run[r].log[k].verb = "GET" /\ run[r].log[k].res = "ok"

\* The calls of ensure_method_and_integration that have completed in a run that has
\* not failed.
C16_Completed(rec) ==
    IF rec.pc = "ensure_method" THEN Len(SixVerbs) * (rec.i - 1) + (rec.m - 1)
    ELSE Len(SixVerbs) * Reconciled(rec)

\* C16 Unconditional integration write: every get_integration that was answered, with
\* an integration or with not-found, is followed by a put_integration of the same
\* pair; a run that has not failed has as many answered put_integration calls as
\* calls of ensure_method_and_integration it has completed; and a run over the list of
\* the run before it, which ended well, issues put_integration six times per path,
\* each after a get_integration that found the integration, and no create_resource
\* and no put_method.
C16_UnconditionalIntegration ==
    \A r \in Runs :
       Current(r) =>
          LET log == run[r].log
          IN  /\ \A k \in Issued(log, {"get_integration"}) :
                    log[k].res \in {"ok", "NotFoundException"} =>
                       /\ k < Len(log)
                       /\ log[k + 1].op = "put_integration"
                       /\ SamePair(log[k], log[k + 1])
              /\ \A k \in Issued(log, {"put_integration"}) :
                    /\ log[k - 1].op = "get_integration"
                    /\ log[k].res = "ok" =>
                          /\ <<log[k].rid, log[k].verb>> \in DOMAIN gw_integrations
                          /\ gw_integrations[<<log[k].rid, log[k].verb>>]
                                = ProxyIntegration(gw_integrations[<<log[k].rid, log[k].verb>>].uri)
              /\ run[r].pc # "failed" =>
                    Cardinality(Wrote(log, {"put_integration"})) = C16_Completed(run[r])
              /\ (/\ r > 1
                  /\ run[r - 1].pc = "done"
                  /\ run[r - 1].paths = run[r].paths
                  /\ run[r].pc \in {"add_permission", "create_deployment", "done"}) =>
                    /\ Cardinality(Issued(log, {"put_integration"}))
                          = Len(SixVerbs) * Len(run[r].paths)
                    /\ \A k \in Issued(log, {"put_integration"}) :
                          log[k].res = "ok" /\ log[k - 1].res = "ok"
                    /\ Issued(log, {"create_resource", "put_method"}) = {}

\* A run over two paths that the run before it had reconciled has issued twelve
\* put_integration calls, and the integrations are as that run left them.
C16_Witness ==
    /\ run[1].pc = "done"
    /\ run[2].pc = "add_permission"
    /\ Len(run[2].paths) = 2 /\ run[2].paths[1] # run[2].paths[2]
    /\ Cardinality(Wrote(run[2].log, {"put_integration"})) = 12
    /\ gw_integrations = run[2].before.integrations

\* ------------------------------------------------------------------ the grant

\* C17 Permission error outcomes: an add_permission call answered with a conflict
\* leaves the policy as it was and the run goes on to create_deployment, as it does
\* after a call answered ok; a call that failed otherwise is the run's last call, the
\* run has ended with the error, and no deployment was made by it.
C17_PermissionErrorOutcomes ==
    \A r \in Runs :
       Current(r) =>
          LET log == run[r].log
          IN  \A k \in Issued(log, {"add_permission"}) :
                 /\ log[k].res \in {"ok", "ResourceConflictException", "error"}
                 /\ log[k].res \in {"ok", "ResourceConflictException"} =>
                       /\ \/ k = Len(log) /\ run[r].pc = "create_deployment"
                          \/ k + 1 = Len(log) /\ log[k + 1].op = "create_deployment"
                       /\ (k = Len(log)) => run[r].error = NONE
                 /\ log[k].res = "ResourceConflictException" => policy = run[r].before.policy
                 /\ log[k].res = "error" =>
                       /\ k = Len(log)
                       /\ run[r].pc = "failed"
                       /\ run[r].error = "ClientError"
                       /\ policy = run[r].before.policy
                       /\ deployments = run[r].before.deployments

\* The first run granted the permission and then failed to deploy; the second run's
\* grant was answered with a conflict, and the run is about to deploy.
C17_Witness ==
    /\ run[1].pc = "failed"
    /\ run[2].pc = "create_deployment"
    /\ deployments = <<>>
    /\ Len(policy[<<"project-", "users">>]) = 1
    /\ run[2].log[Len(run[2].log)].op = "add_permission"
    /\ run[2].log[Len(run[2].log)].res = "ResourceConflictException"

\* ------------------------------------------------------------------ the region sources

\* The region of the sts client made at line 56 when the session has no region: none,
\* or whatever the client library resolves for it.
StsRegions == {NONE, "us-east-1", "aws-global"}

\* Every combination of set and unset region sources. An environment variable may be
\* set to the empty string. A client made by a session that has a region has that
\* region.
RegionSources ==
    {e \in [session : {NONE, "eu-west-1"},
            AWS_REGION : {NONE, "", "us-west-2"},
            AWS_DEFAULT_REGION : {NONE, "ap-south-1"},
            sts_meta : StsRegions \cup {"eu-west-1"}] :
       IF e.session = NONE THEN e.sts_meta \in StsRegions ELSE e.sts_meta = e.session}

\* A run for /a on a gateway that holds the root alone, under every combination of
\* region sources.
InitRegions ==
    /\ apis = <<[name |-> "MainApiGatewayOld", id |-> "g0"], [name |-> ApiName, id |-> "g1"]>>
    /\ functions = {<<LambdaNamePrefix, "users">>, <<LambdaNamePrefix, "orders">>}
    /\ env \in RegionSources
    /\ config = [mod \in Modules |-> Json("array", <<StrElem(<<"/", "a">>)>>)]
    /\ initial = [resources |-> (RootId :> Root), methods |-> <<>>, integrations |-> <<>>]
    /\ policy = [fn \in functions |-> <<>>]
    /\ gw_resources = initial.resources
    /\ gw_methods = initial.methods
    /\ gw_integrations = initial.integrations
    /\ deployments = <<>>
    /\ run = [r \in Runs |-> IdleRun]
    /\ invocation = NoInvocation

SpecRegions == InitRegions /\ [][Next]_vars

C18_Set(v) == v # NONE /\ v # ""

\* The region by the order the spec gives: the session's region, else the environment
\* override (AWS_REGION, else AWS_DEFAULT_REGION), else us-east-1.
C18_SpecRegion(e) ==
    IF C18_Set(e.session) THEN e.session
    ELSE IF C18_Set(e.AWS_REGION) THEN e.AWS_REGION
    ELSE IF C18_Set(e.AWS_DEFAULT_REGION) THEN e.AWS_DEFAULT_REGION
    ELSE "us-east-1"

\* C18 as the spec states it: the region in the invocation URI of every integration a
\* run has written is the region by the spec's order, whatever the sts client's region
\* is, and it is the region of the source ARN of the permission the run grants.
C18_UriRegionIsOrchestratorRegion ==
    \A r \in Runs :
       Current(r) =>
          /\ \A k \in Wrote(run[r].log, {"put_integration"}) :
                LET uri == gw_integrations[<<run[r].log[k].rid, run[r].log[k].verb>>].uri
                IN  /\ uri[2] = C18_SpecRegion(env)
                    /\ uri[2] = run[r].region
          /\ \A k \in Wrote(run[r].log, {"add_permission"}) :
                \E n \in 1..Len(policy[<<"project-", "users">>]) :
                   policy[<<"project-", "users">>][n].SourceArn[2] = C18_SpecRegion(env)

\* ------------------------------------------------------------------ modules/<module>/app.py

\* The module's name, character by character.
Chars(module) ==
    IF module = "users" THEN <<"u", "s", "e", "r", "s">> ELSE <<"o", "r", "d", "e", "r", "s">>

\* event.get(key, default): an event is a dict, a function on the keys it holds
Get(event, key, default) == IF key \in DOMAIN event THEN event[key] ELSE default

\* path.startswith(prefix)
StartsWith(s, prefix) == Len(prefix) <= Len(s) /\ SubSeq(s, 1, Len(prefix)) = prefix

\* json.dumps of a string, and of a dict of one, two and three items, as tokens
JsonString(tokens) == <<"\"">> \o tokens \o <<"\"">>
JsonItem(key, value) == JsonString(<<key>>) \o <<": ">> \o value
JsonDict1(i1) == <<"{">> \o i1 \o <<"}">>
JsonDict2(i1, i2) == <<"{">> \o i1 \o <<", ">> \o i2 \o <<"}">>
JsonDict3(i1, i2, i3) == <<"{">> \o i1 \o <<", ">> \o i2 \o <<", ">> \o i3 \o <<"}">>

\* The dict every return statement of app.py builds.
Response(statusCode, body) ==
    [statusCode |-> statusCode, headers |-> ("Content-Type" :> "application/json"),
     body |-> body]

\* lines 4-25: the first definition of lambda_handler in app.py
lambda_handler_classifying(module, event) ==
    LET path == Get(event, "path", <<"/">>)
        method == Get(event, "httpMethod", "GET")
    IN  IF StartsWith(path, <<"/", "_", "h", "e", "a", "l", "t", "h", "/">> \o Chars(module))
        THEN Response(200, JsonDict2(JsonItem("status", JsonString(<<"ok">>)),
                                     JsonItem("service", JsonString(<<module>>))))
        ELSE IF /\ StartsWith(path, <<"/">> \o Chars(module))
                /\ method \in {"GET", "POST", "PUT", "DELETE"}
             THEN Response(200, JsonDict1(JsonItem("message",
                                   JsonString(<<module, " handler for ", method, " ">> \o path))))
             ELSE Response(404, JsonDict1(JsonItem("error", JsonString(<<"not found">>))))

\* lines 33 of users/app.py and of orders/app.py
HealthyMessage(module) ==
    IF module = "users" THEN "Users Lambda is healthy v2" ELSE "Orders Lambda is healthy"

\* lines 30-40: the second definition of lambda_handler in app.py. It is executed after
\* the first and binds the same name, so it is the module's lambda_handler.
lambda_handler(module, event) ==
    Response(200, JsonDict3(JsonItem("module", JsonString(<<module>>)),
                            JsonItem("message", JsonString(<<HealthyMessage(module)>>)),
                            JsonItem("path", IF "resource" \in DOMAIN event
                                             THEN JsonString(event["resource"])
                                             ELSE <<"null">>)))

\* The handler invoked with the event.
Invoke ==
    /\ invocation.module # NONE
    /\ invocation.responses = <<>>
    /\ invocation' = [invocation EXCEPT
                        !.responses = <<lambda_handler(invocation.module, invocation.event)>>]
    /\ UNCHANGED <<remote, config, env, initial, run>>

\* The request paths: under /_health/<module>, under /<module>, beside them, of the
\* other module, and the root.
EventPaths(module) ==
    {<<"/", "_", "h", "e", "a", "l", "t", "h", "/">> \o Chars(module),
     <<"/", "_", "h", "e", "a", "l", "t", "h">>,
     <<"/">> \o Chars(module),
     <<"/">> \o Chars(module) \o <<"/", "7">>,
     <<"/">> \o Chars(module) \o <<"x">>,
     <<"/", "c", "a", "r", "t">>,
     <<"/">>}

EventMethods == {"GET", "POST", "PUT", "DELETE", "PATCH", "OPTIONS"}

\* The events: with or without each of the keys path, httpMethod and resource.
Events(module) ==
    {(IF hp THEN "path" :> p ELSE <<>>)
       @@ (IF hm THEN "httpMethod" :> m ELSE <<>>)
       @@ ("resource" :> p) :
         <<hp, p, hm, m>> \in BOOLEAN \X EventPaths(module) \X BOOLEAN \X EventMethods}
    \cup {("path" :> p) @@ ("httpMethod" :> m) :
            <<p, m>> \in EventPaths(module) \X EventMethods}

InitHandler ==
    /\ apis = <<[name |-> ApiName, id |-> "g1"]>>
    /\ functions = {<<LambdaNamePrefix, "users">>, <<LambdaNamePrefix, "orders">>}
    /\ env = [session |-> "eu-west-1", AWS_REGION |-> NONE, AWS_DEFAULT_REGION |-> NONE,
              sts_meta |-> "eu-west-1"]
    /\ config = [mod \in Modules |-> Json("array", <<>>)]
    /\ initial = [resources |-> (RootId :> Root), methods |-> <<>>, integrations |-> <<>>]
    /\ policy = [fn \in functions |-> <<>>]
    /\ gw_resources = initial.resources
    /\ gw_methods = initial.methods
    /\ gw_integrations = initial.integrations
    /\ deployments = <<>>
    /\ run = [r \in Runs |-> IdleRun]
    /\ \E module \in ModulesOfBoth :
          \E event \in Events(module) :
             invocation = [module |-> module, event |-> event, responses |-> <<>>]

NextHandler == Invoke

SpecHandler == InitHandler /\ [][NextHandler]_vars

\* The class the spec gives an event: by its path and its method.
C19_Class(module, event) ==
    LET path == Get(event, "path", <<"/">>)
        method == Get(event, "httpMethod", "GET")
    IN  IF StartsWith(path, <<"/", "_", "h", "e", "a", "l", "t", "h", "/">> \o Chars(module))
        THEN "health"
        ELSE IF StartsWith(path, <<"/">> \o Chars(module))
                /\ method \in {"GET", "POST", "PUT", "DELETE"}
             THEN "message"
             ELSE "not found"

\* C19 as the spec states it: the response of a module's lambda_handler is the canned
\* response of the event's class: 200 with the health body for a path under
\* /_health/<module>, 200 with the module's message for a path under /<module> with
\* GET, POST, PUT or DELETE, and 404 with the error "not found" for every other event.
C19_ClassifiedResponse ==
    \A k \in 1..Len(invocation.responses) :
       LET response == invocation.responses[k]
           class == C19_Class(invocation.module, invocation.event)
       IN  /\ response.statusCode = (IF class = "not found" THEN 404 ELSE 200)
           /\ response.body[3] = (CASE class = "health" -> "status"
                                    [] class = "message" -> "message"
                                    [] class = "not found" -> "error")

\* ------------------------------------------------------------------ paths that are no paths of the tree

\* Lists with a path that has a trailing slash, a doubled slash or no leading slash,
\* alone or after /a, and the list of /a alone.
MalformedConfigs ==
    {Json("array", <<StrElem(<<"/", "b", "/">>)>>),
     Json("array", <<StrElem(<<"/", "a", "/", "/", "b">>)>>),
     Json("array", <<StrElem(<<"a", "/", "b">>)>>),
     Json("array", <<StrElem(<<"/", "a">>), StrElem(<<"/", "b", "/">>)>>),
     Json("array", <<StrElem(<<"/", "a">>)>>)}

InitMalformed ==
    /\ apis = <<[name |-> "MainApiGatewayOld", id |-> "g0"], [name |-> ApiName, id |-> "g1"]>>
    /\ functions = {<<LambdaNamePrefix, "users">>, <<LambdaNamePrefix, "orders">>}
    /\ env = [session |-> "eu-west-1", AWS_REGION |-> NONE, AWS_DEFAULT_REGION |-> NONE,
              sts_meta |-> "eu-west-1"]
    /\ \E c \in MalformedConfigs : config = [mod \in Modules |-> c]
    /\ initial \in TreePool
    /\ policy = [fn \in functions |-> <<>>]
    /\ gw_resources = initial.resources
    /\ gw_methods = initial.methods
    /\ gw_integrations = initial.integrations
    /\ deployments = <<>>
    /\ run = [r \in Runs |-> IdleRun]
    /\ invocation = NoInvocation

SpecMalformed == InitMalformed /\ [][Next]_vars

\* Every resource of the normalized path (the segments that are not empty, joined)
\* is there, under its parent.
C20_NormalizedThere(path) ==
    \A n \in 0..Len(Segments(path)) :
       \E k \in DOMAIN gw_resources :
          /\ gw_resources[k].path = PathOfSegments(SubSeq(Segments(path), 1, n))
          /\ Chain(gw_resources, k) = SubSeq(Segments(path), 1, n)

\* C20 ensure_path and paths that are no paths of the tree: the id ensure_path returns
\* is the id of a resource whose path is the input string. A run whose path in work
\* has an empty segment or no leading slash never gets past it: it does not return,
\* and it ends only with the lookup error or with a failed remote call; it does end
\* with the lookup error when its listing and its creations are answered, and then
\* every resource of the normalized path is there, the run's last call being the
\* listing or the last creation. The lookup error comes of such paths alone. A run
\* over the list of a run that ended with the lookup error never ends well and creates
\* no resource and no method.
C20_MalformedPath ==
    \A r \in Runs :
       Current(r) =>
          LET rec == run[r]
              log == rec.log
          IN  /\ rec.pc = "ensure_method" =>
                    /\ rec.resource_id \in DOMAIN gw_resources
                    /\ gw_resources[rec.resource_id].path = rec.path
                    /\ WellFormed(rec.path)
              /\ (rec.i > 0 /\ ~WellFormed(rec.path)) =>
                    /\ rec.path \notin Paths(gw_resources)
                    /\ rec.pc \in {"get_resources", "walk", "failed"}
                    /\ rec.pc = "failed" =>
                          \/ rec.error = "KeyError" /\ log[Len(log)].res = "ok"
                          \/ rec.error = "ClientError" /\ log[Len(log)].res = "error"
              /\ (\E j \in 1..Len(rec.paths) : ~WellFormed(rec.paths[j])) => rec.pc # "done"
              /\ rec.error = "KeyError" =>
                    /\ rec.pc = "failed"
                    /\ ~WellFormed(rec.path)
                    /\ C20_NormalizedThere(rec.path)
                    /\ log[Len(log)].op \in {"get_resources", "create_resource"}
                    /\ \A k \in Wrote(log, {"create_resource"}) :
                          log[k].path \notin Paths(rec.before.resources)
              /\ (r > 1 /\ run[r - 1].error = "KeyError" /\ run[r - 1].paths = rec.paths) =>
                    /\ Issued(log, {"create_resource", "put_method"}) = {}
                    /\ gw_resources = rec.before.resources
                    /\ rec.pc # "done"
                    /\ (rec.pc = "failed" /\ log[Len(log)].res = "ok") =>
                          /\ rec.error = "KeyError"
                          /\ log[Len(log)].op = "get_resources"

\* The first run, for /a//b on a gateway that held the root alone, created /a and
\* /a/b and ended with the lookup error; the second run listed the tree and ended with
\* the lookup error, having created nothing.
C20_Witness ==
    /\ run[1].error = "KeyError" /\ run[2].error = "KeyError"
    /\ run[2].paths = <<(<<"/", "a", "/", "/", "b">>)>>
    /\ DOMAIN initial.resources = {RootId}
    /\ Cardinality(DOMAIN gw_resources) = 3
    /\ Issued(run[2].log, {"create_resource"}) = {}
    /\ gw_methods = <<>>

====
